---- MODULE Spec2Model ----
(***************************************************************************)
(* A model of ratatui-binary-data-widget: the layout calculator            *)
(* (RenderPositions), the viewport/selection state (State in state.rs and  *)
(* its older form BinaryDataWidgetState in lib.rs), the click mapper and   *)
(* the part of BinaryDataWidget::render that reconciles the state and      *)
(* decides which cells are drawn.                                          *)
(***************************************************************************)
EXTENDS Integers, FiniteSets, Sequences, TLC

VARIABLES
    api,          \* which state type the host uses: "State" or "BinaryDataWidgetState"
    state,        \* the widget state: the four fields of State / BinaryDataWidgetState
    before,       \* the state a render was entered with, when the most recent
                  \* operation was a render (State_new otherwise)
    lastOp,       \* the most recent operation
    arg,          \* the argument of the most recent operation (address or lines), if any
    ret,          \* what the most recent operation returned (State: changed; else FALSE)
    area,         \* the inner area of that render (empty after a mutator)
    data_length,  \* data.len() of that render (0 after a mutator)
    drawn,        \* what that render drew (nothing after a mutator)
    twin,         \* a second copy of the state, used to compare two schedules
    probe,        \* one application of RenderPositions::new and of clicked_address
    phase         \* where a specification with phases stands

vars == <<api, state, before, lastOp, arg, ret, area, data_length, drawn, twin, probe, phase>>

----------------------------------------------------------------------------
(* Integer widths.  u16 keeps its width.  usize is scaled to 31 bits, the   *)
(* widest TLC's integers hold; every usize operation of the code saturates, *)
(* u16 values widen into it without loss, and slices are at most isize::MAX *)
(* long, all of which the scaling keeps.                                    *)

U16Max == 65535

UsizeMax == 2147483647

Min(a, b) == IF a <= b THEN a ELSE b

Max(a, b) == IF a >= b THEN a ELSE b

saturating_add16(a, b) == IF a > U16Max - b THEN U16Max ELSE a + b

saturating_mul16(a, b) == IF a = 0 \/ b = 0 THEN 0 ELSE IF a > U16Max \div b THEN U16Max ELSE a * b

saturating_add(a, b) == IF a > UsizeMax - b THEN UsizeMax ELSE a + b

saturating_mul(a, b) == IF a = 0 \/ b = 0 THEN 0 ELSE IF a > UsizeMax \div b THEN UsizeMax ELSE a * b

saturating_sub(a, b) == IF a < b THEN 0 ELSE a - b

\* saturating_div: the divisors of the code are never 0 (7, 2, 5, per_row >= 4, 8)
saturating_div(a, b) == a \div b

div_ceil(a, b) == (a + b - 1) \div b

\* Option<T>: None is the empty set, Some(v) the singleton
None == {}

Some(v) == {v}

Unwrap(o) == CHOOSE v \in o : TRUE

----------------------------------------------------------------------------
(* RenderPositions (render_positions.rs; lib.rs holds the same code without *)
(* the biggest_address field)                                               *)

TWO_ADDRESSES_TAKE == 7

CHAR_OFFSET_PER_TWO == 5

Rect(x, y, width, height) == [x |-> x, y |-> y, width |-> width, height |-> height]

RECURSIVE CeilLog16(_, _, _)
\* the least k with 16^k >= b, counting from (k, pow = 16^k)
CeilLog16(b, k, pow) == IF pow >= b THEN k ELSE CeilLog16(b, k + 1, pow * 16)

\* (biggest_address as f32).log(16.0).ceil() as u16.  ln(0) is -inf and the cast
\* of -inf saturates to 0; ln(1) is 0.  For 2 <= b < 2^24 the f32 quotient
\* ln(b)/ln(16) rounds up to the least k with 16^k >= b (glibc logf, checked
\* for every b below 70000), so an exact power of 16 gets k, not k + 1.
address_width_of(biggest_address) ==
    IF biggest_address <= 1 THEN 0 ELSE CeilLog16(biggest_address, 0, 1)

\* mutant: as many pairs as fit, not the largest power of two
pairs_per_row_all(pairs_per_row, pairs_per_row_max) == Max(pairs_per_row, pairs_per_row_max)

RECURSIVE pairs_per_row_strict(_, _)
\* mutant: the loop stops one doubling early when pairs_per_row_max is itself a
\* power of two
pairs_per_row_strict(pairs_per_row, pairs_per_row_max) ==
    LET next == saturating_mul16(pairs_per_row, 2)
    IN  IF next >= pairs_per_row_max THEN pairs_per_row
        ELSE pairs_per_row_strict(next, pairs_per_row_max)

RECURSIVE pairs_per_row_loop(_, _)
\* the loop of lines 40-50: double while the doubled value does not exceed the max
pairs_per_row_loop(pairs_per_row, pairs_per_row_max) ==
    LET next == saturating_mul16(pairs_per_row, 2)
    IN  IF next > pairs_per_row_max THEN pairs_per_row
        ELSE pairs_per_row_loop(next, pairs_per_row_max)

\* mutant: one pair is enough
too_few_pairs_one(pairs_per_row_max) == pairs_per_row_max < 1

\* lines 36-38: fewer than two pairs fit
too_few_pairs(pairs_per_row_max) == pairs_per_row_max < 2

\* mutant: without the early return of lines 19-21
RenderPositions_new_unchecked(inner_area, len) ==
    LET biggest_address == saturating_sub(len, 1)
        address_width == address_width_of(biggest_address)
        data_width == saturating_sub(saturating_sub(inner_area.width, 2), address_width)
        pairs_per_row_max == saturating_div(data_width, TWO_ADDRESSES_TAKE)
    IN  IF too_few_pairs(pairs_per_row_max) THEN None
        ELSE
        LET pairs_per_row == pairs_per_row_loop(1, pairs_per_row_max)
            per_row == saturating_mul16(pairs_per_row, 2)
            offset_x_hex == saturating_add16(saturating_add16(inner_area.x, address_width), 2)
        IN  Some([inner_area |-> inner_area,
                  biggest_address |-> biggest_address,
                  address_width |-> address_width,
                  per_row |-> per_row,
                  available_data_lines |-> div_ceil(len, per_row),
                  offset_x_hex |-> offset_x_hex,
                  offset_x_char |-> saturating_add16(offset_x_hex,
                                       saturating_mul16(pairs_per_row, CHAR_OFFSET_PER_TWO))])

RenderPositions_new(inner_area, len) ==
    IF inner_area.width < 9 \/ inner_area.height < 1 \/ len = 0 THEN None
    ELSE
    LET biggest_address == saturating_sub(len, 1)
        address_width == address_width_of(biggest_address)
        data_width == saturating_sub(saturating_sub(inner_area.width, 2), address_width)
        pairs_per_row_max == saturating_div(data_width, TWO_ADDRESSES_TAKE)
    IN  IF too_few_pairs(pairs_per_row_max) THEN None
        ELSE
        LET pairs_per_row == pairs_per_row_loop(1, pairs_per_row_max)
            per_row == saturating_mul16(pairs_per_row, 2)
            offset_x_hex == saturating_add16(saturating_add16(inner_area.x, address_width), 2)
        IN  Some([inner_area |-> inner_area,
                  biggest_address |-> biggest_address,
                  address_width |-> address_width,
                  per_row |-> per_row,
                  available_data_lines |-> div_ceil(len, per_row),
                  offset_x_hex |-> offset_x_hex,
                  offset_x_char |-> saturating_add16(offset_x_hex,
                                       saturating_mul16(pairs_per_row, CHAR_OFFSET_PER_TWO))])

\* mutant: no gap between the pairs
x_hex_no_gap(positions, index_on_row) ==
    saturating_add16(positions.offset_x_hex, saturating_mul16(index_on_row, 2))

x_hex(positions, index_on_row) ==
    LET pair_index == saturating_div(index_on_row, 2)
    IN  saturating_add16(saturating_add16(positions.offset_x_hex,
                                          saturating_mul16(index_on_row, 2)),
                         pair_index)

x_char(positions, index_on_row) == saturating_add16(positions.offset_x_char, index_on_row)

RenderPositions_clicked_address(positions, offset_address, column, row) ==
    LET row_offset == saturating_sub(row, positions.inner_area.y)
        base == saturating_add(offset_address, saturating_mul(row_offset, positions.per_row))
    IN  IF column <= positions.offset_x_hex THEN base
        ELSE IF column < saturating_sub(positions.offset_x_char, 1) THEN
            LET diff == saturating_sub(column, positions.offset_x_hex)
                index == saturating_div(saturating_sub(diff, saturating_div(diff, 5)), 2)
            IN  saturating_add(base, index)
        ELSE
            LET diff == saturating_sub(column, positions.offset_x_char)
                index == Min(diff, saturating_sub(positions.per_row, 1))
            IN  saturating_add(base, index)

----------------------------------------------------------------------------
(* State (state.rs).  Every mutator yields [s |-> the state after the call, *)
(* r |-> the value it returns].                                             *)

State_new ==
    [ensure_selected_in_view_on_next_render |-> FALSE,
     last_render_positions |-> None,
     offset_address |-> 0,
     selected_address |-> None]

\* mutant: select(None) also resets the view, as BinaryDataWidgetState::select does
select_address_reset(s, address) ==
    LET limited == IF address /= None /\ s.last_render_positions /= None
                   THEN Some(Min(Unwrap(address),
                                 Unwrap(s.last_render_positions).biggest_address))
                   ELSE address
    IN  [s |-> [s EXCEPT !.ensure_selected_in_view_on_next_render = TRUE,
                         !.selected_address = limited,
                         !.offset_address = IF address = None THEN 0 ELSE @],
         r |-> (s.selected_address /= limited)]

\* mutant: the address is not limited to the last render
select_address_unlimited(s, address) ==
    [s |-> [s EXCEPT !.ensure_selected_in_view_on_next_render = TRUE,
                     !.selected_address = address],
     r |-> (s.selected_address /= address)]

select_address(s, address) ==
    LET limited == IF address /= None /\ s.last_render_positions /= None
                   THEN Some(Min(Unwrap(address),
                                 Unwrap(s.last_render_positions).biggest_address))
                   ELSE address
    IN  [s |-> [s EXCEPT !.ensure_selected_in_view_on_next_render = TRUE,
                         !.selected_address = limited],
         r |-> (s.selected_address /= limited)]

\* mutant: 16 per row while there is no layout
last_per_row_wide(s) ==
    IF s.last_render_positions = None THEN 16
    ELSE Unwrap(s.last_render_positions).per_row

last_per_row(s) ==
    IF s.last_render_positions = None THEN 8
    ELSE Unwrap(s.last_render_positions).per_row

select_first_in_row(s) ==
    select_address(s, Some(
        IF s.selected_address = None THEN 0
        ELSE LET per_row == last_per_row(s)
             IN  saturating_mul(saturating_div(Unwrap(s.selected_address), per_row), per_row)))

\* mutant: one byte too far, the first byte of the next row
select_last_in_row_over(s) ==
    LET per_row == last_per_row(s)
    IN  select_address(s, Some(
            IF s.selected_address = None THEN per_row
            ELSE saturating_add(
                     saturating_mul(saturating_div(Unwrap(s.selected_address), per_row), per_row),
                     per_row)))

select_last_in_row(s) ==
    LET per_row == last_per_row(s)
        last_in_row == saturating_sub(per_row, 1)
    IN  select_address(s, Some(
            IF s.selected_address = None THEN last_in_row
            ELSE saturating_add(
                     saturating_mul(saturating_div(Unwrap(s.selected_address), per_row), per_row),
                     last_in_row)))

key_up(s) ==
    select_address(s, Some(
        IF s.selected_address = None THEN UsizeMax
        ELSE saturating_sub(Unwrap(s.selected_address), last_per_row(s))))

key_down(s) ==
    select_address(s, Some(
        IF s.selected_address = None THEN 0
        ELSE saturating_add(Unwrap(s.selected_address), last_per_row(s))))

key_left(s) ==
    select_address(s, Some(
        IF s.selected_address = None THEN UsizeMax
        ELSE saturating_sub(Unwrap(s.selected_address), 1)))

key_right(s) ==
    select_address(s, Some(
        IF s.selected_address = None THEN 0
        ELSE saturating_add(Unwrap(s.selected_address), 1)))

scroll_up(s, lines) ==
    LET after == saturating_sub(s.offset_address, saturating_mul(lines, last_per_row(s)))
    IN  [s |-> [s EXCEPT !.offset_address = after],
         r |-> (s.offset_address /= after)]

\* mutant: a scroll withdraws the pending scroll to the selection
scroll_down_unflag(s, lines) ==
    LET last_biggest_address ==
            IF s.last_render_positions = None THEN UsizeMax
            ELSE Unwrap(s.last_render_positions).biggest_address
        after == Min(saturating_add(s.offset_address,
                                    saturating_mul(lines, last_per_row(s))),
                     last_biggest_address)
    IN  [s |-> [s EXCEPT !.offset_address = after,
                         !.ensure_selected_in_view_on_next_render = FALSE],
         r |-> (s.offset_address /= after)]

\* mutant: scroll_down without the limit to the biggest address of the last render
scroll_down_unlimited(s, lines) ==
    LET offset_address == saturating_add(s.offset_address,
                                         saturating_mul(lines, last_per_row(s)))
    IN  [s |-> [s EXCEPT !.offset_address = offset_address],
         r |-> s.offset_address /= offset_address]

scroll_down(s, lines) ==
    LET last_biggest_address ==
            IF s.last_render_positions = None THEN UsizeMax
            ELSE Unwrap(s.last_render_positions).biggest_address
        after == Min(saturating_add(s.offset_address,
                                    saturating_mul(lines, last_per_row(s))),
                     last_biggest_address)
    IN  [s |-> [s EXCEPT !.offset_address = after],
         r |-> (s.offset_address /= after)]

\* mutant: None for a position outside the region of the last render
clicked_address_inside(s, column, row) ==
    IF s.last_render_positions = None THEN None
    ELSE LET inner == Unwrap(s.last_render_positions).inner_area
         IN  IF column < inner.x \/ column >= inner.x + inner.width
                \/ row < inner.y \/ row >= inner.y + inner.height
             THEN None
             ELSE Some(RenderPositions_clicked_address(Unwrap(s.last_render_positions),
                                                       s.offset_address, column, row))

\* State::clicked_address: an Option<usize>
clicked_address(s, column, row) ==
    IF s.last_render_positions = None THEN None
    ELSE Some(RenderPositions_clicked_address(Unwrap(s.last_render_positions),
                                              s.offset_address, column, row))

----------------------------------------------------------------------------
(* BinaryDataWidgetState (lib.rs): the same four fields; its mutators       *)
(* return nothing (r is FALSE) and do not limit to the last render.         *)

Widget_per_row(s) ==
    IF s.last_render_positions = None THEN 8
    ELSE Unwrap(s.last_render_positions).per_row

Widget_select(s, address) ==
    [s |-> [s EXCEPT !.selected_address = address,
                     !.ensure_selected_in_view_on_next_render = TRUE,
                     !.offset_address = IF address = None THEN 0 ELSE @],
     r |-> FALSE]

Widget_key_up(s) ==
    [s |-> [s EXCEPT !.selected_address = Some(
                         IF s.selected_address = None THEN UsizeMax
                         ELSE saturating_sub(Unwrap(s.selected_address), Widget_per_row(s))),
                     !.ensure_selected_in_view_on_next_render = TRUE],
     r |-> FALSE]

Widget_key_down(s) ==
    [s |-> [s EXCEPT !.selected_address = Some(
                         IF s.selected_address = None THEN 0
                         ELSE saturating_add(Unwrap(s.selected_address), Widget_per_row(s))),
                     !.ensure_selected_in_view_on_next_render = TRUE],
     r |-> FALSE]

Widget_key_left(s) ==
    [s |-> [s EXCEPT !.selected_address = Some(
                         IF s.selected_address = None THEN UsizeMax
                         ELSE saturating_sub(Unwrap(s.selected_address), 1)),
                     !.ensure_selected_in_view_on_next_render = TRUE],
     r |-> FALSE]

Widget_key_right(s) ==
    [s |-> [s EXCEPT !.selected_address = Some(
                         IF s.selected_address = None THEN 0
                         ELSE saturating_add(Unwrap(s.selected_address), 1)),
                     !.ensure_selected_in_view_on_next_render = TRUE],
     r |-> FALSE]

Widget_scroll_up(s, lines) ==
    [s |-> [s EXCEPT !.offset_address =
                         saturating_sub(@, saturating_mul(lines, Widget_per_row(s)))],
     r |-> FALSE]

Widget_scroll_down(s, lines) ==
    [s |-> [s EXCEPT !.offset_address =
                         saturating_add(@, saturating_mul(lines, Widget_per_row(s)))],
     r |-> FALSE]

----------------------------------------------------------------------------
(* BinaryDataWidget::render (lib.rs), without a block: the inner area is    *)
(* the area given.  It yields [s |-> the state after the call, drawn |->    *)
(* what was written to the buffer]: one label per visible line and one      *)
(* cell (hex at x_hex, char at x_char) per byte.                            *)

RECURSIVE HexDigits(_)
\* the length of format!("{n:x}")
HexDigits(n) == IF n < 16 THEN 1 ELSE 1 + HexDigits(n \div 16)

Nothing == [cells |-> {}, labels |-> {}]

\* mutant: "move offset down" forgets the + 1 of its end_line
start_line_short(ensure, selected, offset_address, per_row, available_height) ==
    LET start_line == saturating_div(offset_address, per_row)
    IN  IF ensure /\ selected /= None THEN
            LET selected_line == saturating_div(Unwrap(selected), per_row)
            IN  IF selected_line < start_line THEN selected_line
                ELSE LET end_line == saturating_add(start_line, available_height)
                     IN  IF selected_line >= end_line
                         THEN saturating_sub(selected_line, available_height)
                         ELSE start_line
        ELSE start_line

\* mutant: the view follows the selection whether the flag is set or not
start_line_follow(ensure, selected, offset_address, per_row, available_height) ==
    LET start_line == saturating_div(offset_address, per_row)
    IN  IF selected /= None THEN
            LET selected_line == saturating_div(Unwrap(selected), per_row)
            IN  IF selected_line < start_line THEN selected_line
                ELSE LET end_line == saturating_add(start_line, available_height)
                     IN  IF selected_line >= end_line
                         THEN saturating_sub(saturating_add(selected_line, 1), available_height)
                         ELSE start_line
        ELSE start_line

\* lines 332-347: the first line shown
start_line_of(ensure, selected, offset_address, per_row, available_height) ==
    LET start_line == saturating_div(offset_address, per_row)
    IN  IF ensure /\ selected /= None THEN
            LET selected_line == saturating_div(Unwrap(selected), per_row)
            IN  IF selected_line < start_line THEN selected_line
                ELSE LET end_line == saturating_add(start_line, available_height)
                     IN  IF selected_line >= end_line
                         THEN saturating_sub(saturating_add(selected_line, 1), available_height)
                         ELSE start_line
        ELSE start_line

\* mutant: the inner loop does not stop at the end of the data
draw_whole_rows(positions, start_line, len) ==
    LET inner == positions.inner_area
        visible_lines == Min(saturating_sub(positions.available_data_lines, start_line),
                             inner.height)
        line_address(line_index) ==
            saturating_mul(saturating_add(start_line, line_index), positions.per_row)
    IN  [labels |->
            {[y |-> saturating_add16(inner.y, line_index),
              x |-> inner.x,
              address |-> line_address(line_index),
              width |-> Min(Max(HexDigits(line_address(line_index)),
                                positions.address_width) + 2, inner.width)]
             : line_index \in 0 .. visible_lines - 1},
         cells |->
            {[y |-> saturating_add16(inner.y, c[1]),
              index |-> c[2],
              address |-> saturating_add(line_address(c[1]), c[2]),
              x_hex |-> x_hex(positions, c[2]),
              x_char |-> x_char(positions, c[2])]
             : c \in (0 .. visible_lines - 1) \X (0 .. positions.per_row - 1)}]

\* lines 352-412: the loop over the visible lines
draw(positions, start_line, len) ==
    LET inner == positions.inner_area
        visible_lines == Min(saturating_sub(positions.available_data_lines, start_line),
                             inner.height)
        line_address(line_index) ==
            saturating_mul(saturating_add(start_line, line_index), positions.per_row)
    IN  [labels |->
            {[y |-> saturating_add16(inner.y, line_index),
              x |-> inner.x,
              address |-> line_address(line_index),
              \* "{offset_address:>address_width$x}: ", cut to area.width by set_stringn
              width |-> Min(Max(HexDigits(line_address(line_index)),
                                positions.address_width) + 2, inner.width)]
             : line_index \in 0 .. visible_lines - 1},
         cells |->
            {[y |-> saturating_add16(inner.y, c[1]),
              index |-> c[2],
              address |-> saturating_add(line_address(c[1]), c[2]),
              x_hex |-> x_hex(positions, c[2]),
              x_char |-> x_char(positions, c[2])]
             : c \in {d \in (0 .. visible_lines - 1) \X (0 .. positions.per_row - 1) :
                         \* data.get(address) is None: break
                         saturating_add(line_address(d[1]), d[2]) < len}}]

\* char::is_ascii_graphic: U+0021 '!' ..= U+007E '~'
is_ascii_graphic(value) == value >= 33 /\ value <= 126

\* lines 403-410: the cells the char of a byte takes: the char itself, or the
\* two chars of the placeholder literal of line 408
char_text_width(value) == IF is_ascii_graphic(value) THEN 1 ELSE 2

\* line 398: format!("{value:>2x}")
hex_text_width(value) == IF value < 16 THEN 2 ELSE HexDigits(value)

\* the columns set_stringn writes for a label, and set_string for a byte of
\* the given value
label_columns(label) == label.x .. label.x + label.width - 1

cell_columns(cell, value) ==
    (cell.x_hex .. cell.x_hex + hex_text_width(value) - 1)
    \cup (cell.x_char .. cell.x_char + char_text_width(value) - 1)

\* mutant: the biggest address of the layout stored by the render before
biggest_of_stale(s, len) ==
    IF s.last_render_positions = None THEN saturating_sub(len, 1)
    ELSE Unwrap(s.last_render_positions).biggest_address

\* lines 324 and 327: self.data.len().saturating_sub(1), the biggest address of
\* the data given to this render (s, the state the render was entered with, is
\* not read)
biggest_of(s, len) == saturating_sub(len, 1)

\* mutant: the selection is not limited to the data
limit_selected_not(selected, biggest) == selected

\* lines 326-328: Ensure selected_address is actually selectable
limit_selected(selected, biggest) ==
    IF selected = None THEN None ELSE Some(Min(biggest, Unwrap(selected)))

\* mutant: a render that computes no layout clears the flag as well
render_unflags(s, inner_area, len) ==
    LET found == RenderPositions_new(inner_area, len)
    IN  IF found = None
        THEN [s |-> [s EXCEPT !.last_render_positions = None,
                              !.ensure_selected_in_view_on_next_render = FALSE],
              drawn |-> Nothing]
        ELSE
        LET positions == Unwrap(found)
            offset_address == Min(s.offset_address, biggest_of(s, len))
            selected == limit_selected(s.selected_address, biggest_of(s, len))
            ensure == s.ensure_selected_in_view_on_next_render
            start_line == start_line_of(ensure, selected, offset_address,
                                        positions.per_row, inner_area.height)
        IN  [s |-> [ensure_selected_in_view_on_next_render |-> FALSE,
                    last_render_positions |-> found,
                    offset_address |-> IF ensure
                                       THEN saturating_mul(start_line, positions.per_row)
                                       ELSE offset_address,
                    selected_address |-> selected],
             drawn |-> draw(positions, start_line, len)]

render(s, inner_area, len) ==
    LET found == RenderPositions_new(inner_area, len)
    IN  IF found = None
        THEN [s |-> [s EXCEPT !.last_render_positions = None], drawn |-> Nothing]
        ELSE
        LET positions == Unwrap(found)
            offset_address == Min(s.offset_address, biggest_of(s, len))
            selected == limit_selected(s.selected_address, biggest_of(s, len))
            ensure == s.ensure_selected_in_view_on_next_render
            start_line == start_line_of(ensure, selected, offset_address,
                                        positions.per_row, inner_area.height)
        IN  [s |-> [ensure_selected_in_view_on_next_render |-> FALSE,
                    last_render_positions |-> found,
                    offset_address |-> IF ensure
                                       THEN saturating_mul(start_line, positions.per_row)
                                       ELSE offset_address,
                    selected_address |-> selected],
             drawn |-> draw(positions, start_line, len)]

----------------------------------------------------------------------------
(* The host: it creates the state, then calls mutators and renders in any   *)
(* order, with any of the regions and data lengths below.                   *)

\* the longest data: biggest address 16, a power of 16
MaxLen == 17

\* addresses above MaxAddr and below UsizeMax - HighSlack are not explored
MaxAddr == 20

HighSlack == 1

\* data.len() of a render: empty, one byte, a partial last line, the longest
DataLengths == {0, 1, 11, MaxLen}

\* inner areas: too narrow for two pairs; 4 per row on 2 lines; 8 per row on 1
\* line, ending at the last column and row of the u16 grid
Areas == {Rect(0, 0, 15, 2), Rect(2, 1, 19, 2), Rect(U16Max - 32, U16Max - 1, 32, 1)}

NoArea == Rect(0, 0, 0, 0)

SelectArgs == {None, Some(6), Some(UsizeMax)}

ScrollLines == {0, 1, UsizeMax}

NoProbe == [positions |-> None, offset_address |-> 0, line |-> 0, index |-> 0,
            place |-> "none", column |-> 0, row |-> 0, clicked |-> 0]

Explored(v) == v <= MaxAddr \/ v >= UsizeMax - HighSlack

InRange(s) ==
    /\ Explored(s.offset_address)
    /\ s.selected_address /= None => Explored(Unwrap(s.selected_address))

Created(which) ==
    /\ api = which
    /\ state = State_new
    /\ before = State_new
    /\ lastOp = "new"
    /\ arg = None
    /\ ret = FALSE
    /\ area = NoArea
    /\ data_length = 0
    /\ drawn = Nothing
    /\ twin = State_new
    /\ probe = NoProbe
    /\ phase = "run"

\* what a call of a mutator leaves besides the state: op names it, a is its
\* argument, r what it returned
Called(op, a, r) ==
    /\ lastOp' = op
    /\ arg' = a
    /\ ret' = r
    /\ before' = State_new
    /\ area' = NoArea
    /\ data_length' = 0
    /\ drawn' = Nothing
    /\ UNCHANGED <<api, twin, probe, phase>>

Render ==
    \E inner_area \in Areas, len \in DataLengths :
        LET res == render(state, inner_area, len)
        IN  /\ state' = res.s
            /\ before' = state
            /\ lastOp' = "render"
            /\ arg' = None
            /\ ret' = FALSE
            /\ area' = inner_area
            /\ data_length' = len
            /\ drawn' = res.drawn
            /\ UNCHANGED <<api, twin, probe, phase>>

SelectAddress ==
    \E address \in SelectArgs :
        LET res == select_address(state, address)
        IN  /\ InRange(res.s)
            /\ state' = res.s
            /\ Called("select_address", address, res.r)

SelectFirstInRow ==
    LET res == select_first_in_row(state)
    IN  /\ InRange(res.s)
        /\ state' = res.s
        /\ Called("select_first_in_row", None, res.r)

SelectLastInRow ==
    LET res == select_last_in_row(state)
    IN  /\ InRange(res.s)
        /\ state' = res.s
        /\ Called("select_last_in_row", None, res.r)

KeyUp ==
    LET res == key_up(state)
    IN  /\ InRange(res.s)
        /\ state' = res.s
        /\ Called("key_up", None, res.r)

KeyDown ==
    LET res == key_down(state)
    IN  /\ InRange(res.s)
        /\ state' = res.s
        /\ Called("key_down", None, res.r)

KeyLeft ==
    LET res == key_left(state)
    IN  /\ InRange(res.s)
        /\ state' = res.s
        /\ Called("key_left", None, res.r)

KeyRight ==
    LET res == key_right(state)
    IN  /\ InRange(res.s)
        /\ state' = res.s
        /\ Called("key_right", None, res.r)

ScrollUp ==
    \E lines \in ScrollLines :
        LET res == scroll_up(state, lines)
        IN  /\ InRange(res.s)
            /\ state' = res.s
            /\ Called("scroll_up", Some(lines), res.r)

ScrollDown ==
    \E lines \in ScrollLines :
        LET res == scroll_down(state, lines)
        IN  /\ InRange(res.s)
            /\ state' = res.s
            /\ Called("scroll_down", Some(lines), res.r)

Init == Created("State")

Next ==
    \/ Render
    \/ SelectAddress
    \/ SelectFirstInRow
    \/ SelectLastInRow
    \/ KeyUp
    \/ KeyDown
    \/ KeyLeft
    \/ KeyRight
    \/ ScrollUp
    \/ ScrollDown

\* a host using State (state.rs)
Spec == Init /\ [][Next]_vars

WidgetSelect ==
    \E address \in SelectArgs :
        LET res == Widget_select(state, address)
        IN  /\ InRange(res.s)
            /\ state' = res.s
            /\ Called("select", address, res.r)

WidgetKeyUp ==
    LET res == Widget_key_up(state)
    IN  /\ InRange(res.s)
        /\ state' = res.s
        /\ Called("key_up", None, res.r)

WidgetKeyDown ==
    LET res == Widget_key_down(state)
    IN  /\ InRange(res.s)
        /\ state' = res.s
        /\ Called("key_down", None, res.r)

WidgetKeyLeft ==
    LET res == Widget_key_left(state)
    IN  /\ InRange(res.s)
        /\ state' = res.s
        /\ Called("key_left", None, res.r)

WidgetKeyRight ==
    LET res == Widget_key_right(state)
    IN  /\ InRange(res.s)
        /\ state' = res.s
        /\ Called("key_right", None, res.r)

WidgetScrollUp ==
    \E lines \in ScrollLines :
        LET res == Widget_scroll_up(state, lines)
        IN  /\ InRange(res.s)
            /\ state' = res.s
            /\ Called("scroll_up", Some(lines), res.r)

WidgetScrollDown ==
    \E lines \in ScrollLines :
        LET res == Widget_scroll_down(state, lines)
        IN  /\ InRange(res.s)
            /\ state' = res.s
            /\ Called("scroll_down", Some(lines), res.r)

InitWidget == Created("BinaryDataWidgetState")

NextWidget ==
    \/ Render
    \/ WidgetSelect
    \/ WidgetKeyUp
    \/ WidgetKeyDown
    \/ WidgetKeyLeft
    \/ WidgetKeyRight
    \/ WidgetScrollUp
    \/ WidgetScrollDown

\* a host using BinaryDataWidgetState (lib.rs)
SpecWidget == InitWidget /\ [][NextWidget]_vars

----------------------------------------------------------------------------
(* The layout calculator and the click mapper on their own: a region and a  *)
(* data length are drawn, RenderPositions::new is applied, then             *)
(* clicked_address is applied to the cell of one byte of the layout.        *)

\* layouts up to this many bytes per row have every index clicked
MaxIndex == 8

LayoutWidths == {8, 9, 15, 16, 17, 18, 30, 31, 59, U16Max}

LayoutHeights == {0, 1, 2}

LayoutXs == {0, 5, U16Max - 31, U16Max}

LayoutYs == {0, U16Max - 2, U16Max}

LayoutLengths == {0, 1, 2, 17, 18, 258}

ClickOffsets == {0, 7, UsizeMax - 6}

ClickIndexes(per_row) ==
    IF per_row <= MaxIndex THEN 0 .. per_row - 1
    ELSE {0, 1, 2, 3, per_row \div 2, per_row - 2, per_row - 1}

InitLayout ==
    /\ api = "RenderPositions"
    /\ state = State_new
    /\ before = State_new
    /\ lastOp = "new"
    /\ arg = None
    /\ ret = FALSE
    /\ area \in {Rect(x, y, w, h) : x \in LayoutXs, y \in LayoutYs,
                                   w \in LayoutWidths, h \in LayoutHeights}
    /\ data_length \in LayoutLengths
    /\ drawn = Nothing
    /\ twin = State_new
    /\ probe = NoProbe
    /\ phase = "input"

LayoutNew ==
    /\ phase = "input"
    /\ phase' = "laid"
    /\ probe' = [NoProbe EXCEPT !.positions = RenderPositions_new(area, data_length)]
    /\ UNCHANGED <<api, state, before, lastOp, arg, ret, area, data_length, drawn, twin>>

\* the column of byte `index` at `place`: its first or second hex digit, or its char
ColumnOf(positions, index, place) ==
    CASE place = "hex" -> x_hex(positions, index)
      [] place = "hex2" -> saturating_add16(x_hex(positions, index), 1)
      [] place = "char" -> x_char(positions, index)

LayoutClick ==
    /\ phase = "laid"
    /\ probe.positions /= None
    /\ \E offset_address \in ClickOffsets, line \in 0 .. area.height - 1,
          index \in ClickIndexes(Unwrap(probe.positions).per_row),
          place \in {"hex", "hex2", "char"} :
        LET positions == Unwrap(probe.positions)
            column == ColumnOf(positions, index, place)
            row == saturating_add16(positions.inner_area.y, line)
        IN  probe' = [positions |-> probe.positions, offset_address |-> offset_address,
                      line |-> line, index |-> index, place |-> place,
                      column |-> column, row |-> row,
                      clicked |-> RenderPositions_clicked_address(positions, offset_address,
                                                                  column, row)]
    /\ phase' = "clicked"
    /\ UNCHANGED <<api, state, before, lastOp, arg, ret, area, data_length, drawn, twin>>

NextLayout == LayoutNew \/ LayoutClick

SpecLayout == InitLayout /\ [][NextLayout]_vars

----------------------------------------------------------------------------
(* The layout calculator and one render: a region and a data length are     *)
(* drawn, RenderPositions::new is applied, then render is applied to a      *)
(* state with any offset, selection and flag.                               *)

\* widths with no layout, and with 4, 8 and 16 bytes per row, some of them with
\* no column to spare
DrawWidths == {8, 9, 16, 17, 18, 30, 31, 59}

InitDraw ==
    /\ api = "BinaryDataWidget"
    /\ state = State_new
    /\ before = State_new
    /\ lastOp = "new"
    /\ arg = None
    /\ ret = FALSE
    /\ area \in {Rect(x, y, w, h) : x \in LayoutXs, y \in LayoutYs,
                                   w \in DrawWidths, h \in LayoutHeights}
    /\ data_length \in LayoutLengths
    /\ drawn = Nothing
    /\ twin = State_new
    /\ probe = NoProbe
    /\ phase = "input"

\* the values of the bytes of the data: NUL, 'A', the last byte value
ByteValues == {0, 65, 255}

\* offsets a render is entered with
RenderOffsets == {0, 8, UsizeMax}

\* a render of the region and data laid out, entered with any offset,
\* selection and flag; every byte of the data has the value kept in arg
LayoutRender ==
    /\ phase = "laid"
    /\ \E offset_address \in RenderOffsets, selected \in SelectArgs,
          ensure \in BOOLEAN, value \in ByteValues :
        LET s == [State_new EXCEPT !.offset_address = offset_address,
                                   !.selected_address = selected,
                                   !.ensure_selected_in_view_on_next_render = ensure]
            res == render(s, area, data_length)
        IN  /\ before' = s
            /\ state' = res.s
            /\ drawn' = res.drawn
            /\ arg' = Some(value)
    /\ lastOp' = "render"
    /\ phase' = "drawn"
    /\ UNCHANGED <<api, ret, area, data_length, twin, probe>>

NextDraw == LayoutNew \/ LayoutRender

SpecDraw == InitDraw /\ [][NextDraw]_vars

----------------------------------------------------------------------------
(* The doubling loop of RenderPositions::new over every width a region can  *)
(* have: the widths 9 ..= u16::MAX, with data of zero, one and two address  *)
(* digits, give every pairs_per_row_max from 0 to (u16::MAX - 2) / 7.        *)

PairWidths == 9 .. U16Max

PairLengths == {1, 17, 257}

InitPairs ==
    /\ api = "RenderPositions"
    /\ state = State_new
    /\ before = State_new
    /\ lastOp = "new"
    /\ arg = None
    /\ ret = FALSE
    /\ area \in {Rect(0, 0, w, 1) : w \in PairWidths}
    /\ data_length \in PairLengths
    /\ drawn = Nothing
    /\ twin = State_new
    /\ probe = NoProbe
    /\ phase = "input"

NextPairs == LayoutNew

SpecPairs == InitPairs /\ [][NextPairs]_vars

----------------------------------------------------------------------------
(* Two schedules of the same mutators of State compared, for a region and   *)
(* data that stay the same: `state` follows one schedule and `twin` the     *)
(* other.  Both start from a state left by a render, reached by any calls   *)
(* and renders.                                                             *)

\* a burst has at most this many calls
MaxBurst == 3

\* region and data of every render of a comparison: 4 per row on 2 lines, 8 per
\* row on 1 line, no layout
FixedInputs == {<<Rect(2, 1, 19, 2), 11>>,
                <<Rect(U16Max - 32, U16Max - 1, 32, 1), MaxLen>>,
                <<Rect(0, 0, 15, 2), 11>>}

Mutators ==
    {[op |-> "select_address", arg |-> address] : address \in SelectArgs}
    \cup {[op |-> o, arg |-> None] :
             o \in {"select_first_in_row", "select_last_in_row",
                    "key_up", "key_down", "key_left", "key_right"}}
    \cup {[op |-> o, arg |-> Some(lines)] :
             o \in {"scroll_up", "scroll_down"}, lines \in ScrollLines}

IsScroll(m) == m.op \in {"scroll_up", "scroll_down"}

\* the state after the call m
Apply(m, s) ==
    CASE m.op = "select_address" -> select_address(s, m.arg).s
      [] m.op = "select_first_in_row" -> select_first_in_row(s).s
      [] m.op = "select_last_in_row" -> select_last_in_row(s).s
      [] m.op = "key_up" -> key_up(s).s
      [] m.op = "key_down" -> key_down(s).s
      [] m.op = "key_left" -> key_left(s).s
      [] m.op = "key_right" -> key_right(s).s
      [] m.op = "scroll_up" -> scroll_up(s, Unwrap(m.arg)).s
      [] m.op = "scroll_down" -> scroll_down(s, Unwrap(m.arg)).s

InitFixed ==
    /\ api = "State"
    /\ state = State_new
    /\ before = State_new
    /\ lastOp = "new"
    /\ arg = None
    /\ ret = FALSE
    /\ \E input \in FixedInputs : area = input[1] /\ data_length = input[2]
    /\ drawn = Nothing
    /\ twin = State_new
    /\ probe = NoProbe
    /\ phase = "setup"

FixedCall ==
    /\ phase = "setup"
    /\ \E m \in Mutators :
        /\ InRange(Apply(m, state))
        /\ state' = Apply(m, state)
    /\ lastOp' = "call"
    /\ UNCHANGED <<api, before, arg, ret, area, data_length, drawn, twin, probe, phase>>

FixedRender ==
    /\ phase = "setup"
    /\ state' = render(state, area, data_length).s
    /\ lastOp' = "render"
    /\ UNCHANGED <<api, before, arg, ret, area, data_length, drawn, twin, probe, phase>>

\* two mutators after a render, in both orders, and the next render
OrderPair ==
    /\ phase = "setup"
    /\ lastOp = "render"
    /\ \E m1 \in Mutators, m2 \in Mutators :
        /\ InRange(Apply(m1, state)) /\ InRange(Apply(m2, Apply(m1, state)))
        /\ InRange(Apply(m2, state)) /\ InRange(Apply(m1, Apply(m2, state)))
        /\ state' = render(Apply(m2, Apply(m1, state)), area, data_length).s
        /\ twin' = render(Apply(m1, Apply(m2, state)), area, data_length).s
        /\ arg' = <<m1, m2>>
    /\ lastOp' = "pair"
    /\ phase' = "done"
    /\ UNCHANGED <<api, before, ret, area, data_length, drawn, probe>>

NextOrder == FixedCall \/ FixedRender \/ OrderPair

SpecOrder == InitFixed /\ [][NextOrder]_vars

\* a burst starts after a render: `state` takes the calls alone, `twin` renders
\* after each of them; arg counts the calls
BurstStart ==
    /\ phase = "setup"
    /\ lastOp = "render"
    /\ twin' = state
    /\ arg' = 0
    /\ phase' = "burst"
    /\ UNCHANGED <<api, state, before, lastOp, ret, area, data_length, drawn, probe>>

BurstCall ==
    /\ phase = "burst"
    /\ arg < MaxBurst
    /\ \E m \in Mutators :
        /\ InRange(Apply(m, state)) /\ InRange(Apply(m, twin))
        /\ state' = Apply(m, state)
        /\ twin' = render(Apply(m, twin), area, data_length).s
    /\ arg' = arg + 1
    /\ lastOp' = "call"
    /\ UNCHANGED <<api, before, ret, area, data_length, drawn, probe, phase>>

BurstRender ==
    /\ phase = "burst"
    /\ arg >= 1
    /\ state' = render(state, area, data_length).s
    /\ lastOp' = "render"
    /\ phase' = "done"
    /\ UNCHANGED <<api, before, arg, ret, area, data_length, drawn, twin, probe>>

NextBurst == FixedCall \/ FixedRender \/ BurstStart \/ BurstCall \/ BurstRender

SpecBurst == InitFixed /\ [][NextBurst]_vars

----------------------------------------------------------------------------
(* One key and the render after it, with what was before: any calls and     *)
(* renders come first; then before is the state the key is called in, arg   *)
(* the key, twin the state it leaves, probe the region and data of the      *)
(* render after it and state what that render leaves.  area and data_length *)
(* are those of the last render before the key (NoArea when there was       *)
(* none).                                                                   *)

KeyOps == {"key_up", "key_down", "key_left", "key_right"}

InitKeys ==
    /\ api = "State"
    /\ state = State_new
    /\ before = State_new
    /\ lastOp = "new"
    /\ arg = None
    /\ ret = FALSE
    /\ area = NoArea
    /\ data_length = 0
    /\ drawn = Nothing
    /\ twin = State_new
    /\ probe = NoProbe
    /\ phase = "setup"

KeysCall ==
    /\ phase = "setup"
    /\ \E m \in Mutators :
        /\ InRange(Apply(m, state))
        /\ state' = Apply(m, state)
    /\ lastOp' = "call"
    /\ UNCHANGED <<api, before, arg, ret, area, data_length, drawn, twin, probe, phase>>

KeysRender ==
    /\ phase = "setup"
    /\ \E inner_area \in Areas, len \in DataLengths :
        /\ state' = render(state, inner_area, len).s
        /\ area' = inner_area
        /\ data_length' = len
    /\ lastOp' = "render"
    /\ UNCHANGED <<api, before, arg, ret, drawn, twin, probe, phase>>

KeyCall ==
    /\ phase = "setup"
    /\ \E op \in KeyOps :
        /\ InRange(Apply([op |-> op, arg |-> None], state))
        /\ state' = Apply([op |-> op, arg |-> None], state)
        /\ arg' = op
    /\ before' = state
    /\ lastOp' = "call"
    /\ phase' = "keyed"
    /\ UNCHANGED <<api, ret, area, data_length, drawn, twin, probe>>

KeyRender ==
    /\ phase = "keyed"
    /\ \E inner_area \in Areas, len \in DataLengths :
        /\ state' = render(state, inner_area, len).s
        /\ probe' = [area |-> inner_area, data_length |-> len]
    /\ twin' = state
    /\ lastOp' = "render"
    /\ phase' = "done"
    /\ UNCHANGED <<api, before, arg, ret, area, data_length, drawn>>

NextKeys == KeysCall \/ KeysRender \/ KeyCall \/ KeyRender

SpecKeys == InitKeys /\ [][NextKeys]_vars

----------------------------------------------------------------------------
(* Claims about the layout calculator, the click mapper and one render      *)
(* (SpecLayout, SpecDraw)                                                   *)

IsPowerOfTwo(n) == \E k \in 0 .. 16 : n = 2 ^ k

Laid == phase /= "input" /\ probe.positions /= None

\* the region lies inside the u16 grid: its right and bottom edge do not saturate
InGrid(r) == r.x + r.width <= U16Max /\ r.y + r.height <= U16Max

LayoutShape(positions) ==
    /\ IsPowerOfTwo(positions.per_row)
    /\ positions.per_row >= 2
    /\ positions.offset_x_char > positions.offset_x_hex

\* C2 as stated: for every layout, offset_address, line and byte index, a click on
\* the first or second hex digit or on the char of the byte returns
\* offset_address + line * per_row + index.
C2_ClickInverse_AnyInput ==
    phase = "clicked" =>
        probe.clicked - probe.offset_address
            = probe.line * Unwrap(probe.positions).per_row + probe.index

\* C2 amended: the same, for a region inside the u16 grid and an address
\* offset_address + line * per_row + index that is at most usize::MAX.
C2_ClickInverse ==
    (/\ phase = "clicked"
     /\ InGrid(area)
     /\ probe.offset_address <= UsizeMax - probe.line * Unwrap(probe.positions).per_row
                                         - probe.index)
    => probe.clicked = probe.offset_address
                       + probe.line * Unwrap(probe.positions).per_row + probe.index

\* the second hex digit of the last byte of the second line, offset 7, region
\* ending at the last column
C2_Witness ==
    /\ phase = "clicked"
    /\ InGrid(area)
    /\ area.x + area.width = U16Max
    /\ probe.place = "hex2"
    /\ probe.line = 1
    /\ probe.index = Unwrap(probe.positions).per_row - 1
    /\ probe.offset_address = 7
    /\ probe.clicked = 7 + 2 * Unwrap(probe.positions).per_row - 1

\* C9 as stated: for data_length > 0 and every region with width >= 9 and
\* height >= 1, whatever its origin, a layout has per_row a power of two, at
\* least 2, and offset_x_char > offset_x_hex.
C9_LayoutShape_AnyOrigin ==
    (Laid /\ data_length > 0 /\ area.width >= 9 /\ area.height >= 1)
    => LayoutShape(Unwrap(probe.positions))

\* C9 amended: the same for every region with x + width <= u16::MAX.
C9_LayoutShape ==
    (Laid /\ data_length > 0 /\ area.width >= 9 /\ area.height >= 1
          /\ area.x + area.width <= U16Max)
    => LayoutShape(Unwrap(probe.positions))

\* three pairs would fit (width 31, three address digits) and two are laid out,
\* in a region ending at the last column
C9_Witness ==
    /\ Laid
    /\ area.width = 31
    /\ area.x + area.width = U16Max
    /\ data_length = 258
    /\ Unwrap(probe.positions).per_row = 4
    /\ Unwrap(probe.positions).offset_x_char = Unwrap(probe.positions).offset_x_hex + 10

\* C10 as stated: width 9 (height >= 1, data not empty) gives a layout with
\* per_row = 2, and there is no layout only when width < 9, height < 1 or the
\* data is empty.
C10_NoneOnlyBelowNine ==
    phase /= "input" =>
        /\ (area.width = 9 /\ area.height >= 1 /\ data_length > 0)
           => (probe.positions /= None /\ Unwrap(probe.positions).per_row = 2)
        /\ probe.positions = None
           => (area.width < 9 \/ area.height < 1 \/ data_length = 0)

\* C10 amended: there is no layout exactly when fewer than two pairs fit
\* (width < 16 + address_width), height < 1 or the data is empty; so a region
\* of width 9 has none, and every layout has per_row >= 4.
C10_NoneBelowTwoPairs ==
    phase /= "input" =>
        /\ probe.positions = None
           <=> \/ area.width < 16 + address_width_of(saturating_sub(data_length, 1))
               \/ area.height < 1
               \/ data_length = 0
        /\ probe.positions /= None => Unwrap(probe.positions).per_row >= 4

C10_Witness ==
    /\ phase = "laid"
    /\ area.width = 9
    /\ area.height >= 1
    /\ data_length = 1
    /\ probe.positions = None

\* C11: for every data_length >= 1 the layout's address_width is the number of
\* hex digits of biggest_address = data_length - 1, at least 1 (data_length 1
\* gives 1, biggest_address 16 gives 2).
C11_AddressWidthIsDigits ==
    (Laid /\ data_length >= 1)
    => Unwrap(probe.positions).address_width = HexDigits(data_length - 1)

\* the columns and rows of a region
RegionColumns(r) == r.x .. r.x + r.width - 1

RegionRows(r) == r.y .. r.y + r.height - 1

\* C12: every label, hex and char cell a render with a layout writes has its
\* columns and its row inside the region.
C12_WritesInsideRegion ==
    (phase = "drawn" /\ state.last_render_positions /= None)
    => /\ \A label \in drawn.labels :
            /\ label_columns(label) \subseteq RegionColumns(area)
            /\ label.y \in RegionRows(area)
       /\ \A cell \in drawn.cells :
            /\ cell_columns(cell, Unwrap(arg)) \subseteq RegionColumns(area)
            /\ cell.y \in RegionRows(area)

\* C14: for width < 9, height < 1 or empty data, RenderPositions::new returns
\* None and render writes no label and no cell.
C14_UndersizedDrawsNothing ==
    (area.width < 9 \/ area.height < 1 \/ data_length = 0)
    => /\ phase /= "input" => probe.positions = None
       /\ phase = "drawn" => (drawn = Nothing /\ state.last_render_positions = None)

\* a render of a region of height 0 that is wide enough, with data
C14_Witness ==
    /\ phase = "drawn"
    /\ area.height = 0
    /\ area.width >= 16
    /\ data_length > 1
    /\ drawn = Nothing
    /\ state.last_render_positions = None

\* C24: the address of every drawn row has at most address_width hex digits,
\* its label with ": " takes exactly address_width + 2 columns and ends before
\* offset_x_hex, where the first hex cell of the row starts.
C24_LabelBeforeHex ==
    (phase = "drawn" /\ state.last_render_positions /= None)
    => \A label \in drawn.labels :
          LET positions == Unwrap(state.last_render_positions)
          IN  /\ HexDigits(label.address) <= positions.address_width
              /\ label.width = positions.address_width + 2
              /\ label.x + label.width <= positions.offset_x_hex
              /\ \A cell \in drawn.cells :
                    cell.y = label.y
                    => label_columns(label) \cap cell_columns(cell, Unwrap(arg)) = {}

RECURSIVE FloorLog2(_)
\* floor(log2(m)) for m >= 1, by halving
FloorLog2(m) == IF m < 2 THEN 0 ELSE 1 + FloorLog2(m \div 2)

\* (width - 2 - address_width) / 7 of the region and the layout computed for it
PairsPerRowMax == (area.width - 2 - Unwrap(probe.positions).address_width) \div 7

\* C25: pairs_per_row is the largest power of two <= pairs_per_row_max =
\* (width - 2 - address_width) / 7: for every pairs_per_row_max >= 2 the
\* doubling loop ends with 2^floor(log2(pairs_per_row_max)), and per_row is
\* twice that.
C25_LargestPowerOfTwo ==
    Laid =>
        LET positions == Unwrap(probe.positions)
            pairs_per_row == 2 ^ FloorLog2(PairsPerRowMax)
        IN  /\ PairsPerRowMax >= 2
            /\ pairs_per_row <= PairsPerRowMax
            /\ 2 * pairs_per_row > PairsPerRowMax
            /\ positions.per_row = 2 * pairs_per_row
            /\ positions.offset_x_char
                   = positions.offset_x_hex + CHAR_OFFSET_PER_TWO * pairs_per_row

\* the widest region: 9361 pairs would fit and 8192 are laid out
C25_Witness ==
    /\ Laid
    /\ area.width = U16Max
    /\ PairsPerRowMax = 9361
    /\ Unwrap(probe.positions).per_row = 16384

----------------------------------------------------------------------------
(* Claims about the state under mutators and renders (Spec)                 *)

Rendered == lastOp = "render"

\* the most recent operation was a render that computed a layout
RenderedLayout == lastOp = "render" /\ state.last_render_positions /= None

PerRow == Unwrap(state.last_render_positions).per_row

\* C1: after a render that computed a layout, clicked_address at the hex cell
\* (either digit) or at the char cell of any byte that render drew returns
\* that byte's address.
C1_ClickReturnsDrawnByte ==
    RenderedLayout =>
        \A c \in drawn.cells :
            /\ clicked_address(state, c.x_hex, c.y) = Some(c.address)
            /\ clicked_address(state, c.x_hex + 1, c.y) = Some(c.address)
            /\ clicked_address(state, c.x_char, c.y) = Some(c.address)

\* C3: a render that computes a layout and was entered with the flag set by
\* select or a key leaves the row of the selection within
\* [top_row, top_row + height), top_row = offset_address / per_row.
C3_SelectionInView ==
    (/\ RenderedLayout
     /\ before.ensure_selected_in_view_on_next_render
     /\ state.selected_address /= None)
    => LET top_row == state.offset_address \div PerRow
           row == Unwrap(state.selected_address) \div PerRow
       IN  top_row <= row /\ row < top_row + area.height

\* the selection was below the view the render was entered with, and the render
\* moved the view down to it
C3_Witness ==
    /\ RenderedLayout
    /\ before.ensure_selected_in_view_on_next_render
    /\ state.selected_address /= None
    /\ Unwrap(state.selected_address) \div PerRow
           >= before.offset_address \div PerRow + area.height
    /\ state.offset_address > before.offset_address
    /\ Unwrap(state.selected_address) \div PerRow
           = state.offset_address \div PerRow + area.height - 1

\* C4: after every render, with or without a layout, offset_address <=
\* max(0, data_length - 1), and a selection is at most data_length - 1 (0 for
\* empty data, as data.len().saturating_sub(1) gives).
C4_WithinDataAfterRender ==
    Rendered =>
        /\ state.offset_address <= Max(0, data_length - 1)
        /\ state.selected_address /= None
           => Unwrap(state.selected_address) <= Max(0, data_length - 1)

\* C5: a render that computes a layout turns a selection >= data_length into
\* data_length - 1 and leaves a selection < data_length as it was.
C5_SelectionClamp ==
    (RenderedLayout /\ before.selected_address /= None)
    => state.selected_address =
           Some(IF Unwrap(before.selected_address) >= data_length
                THEN data_length - 1
                ELSE Unwrap(before.selected_address))

\* the data shrank below the selection
C5_Witness ==
    /\ RenderedLayout
    /\ before.selected_address /= None
    /\ Unwrap(before.selected_address) >= data_length
    /\ Unwrap(before.selected_address) < UsizeMax
    /\ state.selected_address = Some(data_length - 1)
    /\ data_length > 1

\* C6: a render repeated with the same region and data leaves the state
\* (offset, selection, flag, stored layout) as the first render left it.
C6_RenderIdempotent ==
    Rendered => render(state, area, data_length).s = state

\* a render with the layout of the render before it, which changed nothing,
\* with a view that is not at the top and a selection
C6_Witness ==
    /\ RenderedLayout
    /\ before = state
    /\ state.offset_address > 0
    /\ state.selected_address /= None

\* C13: a render with a layout draws min(available_data_lines - top_row, height)
\* rows, top_row = offset_address / per_row; row k holds exactly the bytes at
\* (top_row + k) * per_row + i, 0 <= i < per_row, that are below data_length,
\* each at x_hex(i) and x_char(i).
C13_RowsDrawn ==
    RenderedLayout =>
        LET positions == Unwrap(state.last_render_positions)
            top_row == state.offset_address \div PerRow
            lines == (data_length + PerRow - 1) \div PerRow
            count == Min(lines - top_row, area.height)
        IN  /\ {[y |-> label.y, address |-> label.address] : label \in drawn.labels}
                   = {[y |-> area.y + k, address |-> (top_row + k) * PerRow]
                      : k \in 0 .. count - 1}
            /\ drawn.cells
                   = {[y |-> area.y + c[1],
                       index |-> c[2],
                       address |-> (top_row + c[1]) * PerRow + c[2],
                       x_hex |-> x_hex(positions, c[2]),
                       x_char |-> x_char(positions, c[2])]
                      : c \in {d \in (0 .. count - 1) \X (0 .. PerRow - 1) :
                                  (top_row + d[1]) * PerRow + d[2] < data_length}}

\* two rows drawn below the top of the data, the second one partial
C13_Witness ==
    /\ RenderedLayout
    /\ state.offset_address >= PerRow
    /\ Cardinality(drawn.labels) = 2
    /\ Cardinality(drawn.cells) = PerRow + 3
    /\ \E cell \in drawn.cells : cell.address = data_length - 1 /\ cell.index = 2

\* positions asked of clicked_address: inside and outside the regions
ClickColumns == {0, 7, 20, U16Max}

ClickRows == {0, 1, U16Max}

\* clicked_address gives None for every position
ClicksGiveNone(s) ==
    \A column \in ClickColumns, row \in ClickRows : clicked_address(s, column, row) = None

\* clicked_address gives Some for every position
ClicksGiveSome(s) ==
    \A column \in ClickColumns, row \in ClickRows : clicked_address(s, column, row) /= None

\* C15: clicked_address returns None before the first render and after a
\* render that computed no layout, whatever earlier renders stored; after a
\* render that computed a layout it returns Some for every column and row;
\* calls of mutators change neither.
C15_ClickNoneIffNoLayout ==
    /\ [](lastOp = "new" => ClicksGiveNone(state))
    /\ [](Rendered =>
             IF RenderPositions_new(area, data_length) = None
             THEN ClicksGiveNone(state)
             ELSE ClicksGiveSome(state))
    /\ [][lastOp' /= "render" =>
             /\ ClicksGiveNone(state') <=> ClicksGiveNone(state)
             /\ ClicksGiveSome(state') <=> ClicksGiveSome(state)]_vars

\* a render without a layout directly after one with a layout
C15_Witness ==
    /\ Rendered
    /\ before.last_render_positions /= None
    /\ ClicksGiveSome(before)
    /\ RenderPositions_new(area, data_length) = None
    /\ data_length > 0
    /\ ClicksGiveNone(state)

\* C16: scroll_up and scroll_down change only offset_address: the selection,
\* the flag and the stored layout are after the call what they were before.
C16_ScrollFrame ==
    [][lastOp' \in {"scroll_up", "scroll_down"} =>
          state' = [state EXCEPT !.offset_address = state'.offset_address]]_vars

\* scroll_down(1) moved the view while a selection and its scroll were pending
C16_Witness ==
    /\ lastOp = "scroll_down"
    /\ arg = Some(1)
    /\ ret
    /\ state.offset_address > 0
    /\ state.selected_address /= None
    /\ state.ensure_selected_in_view_on_next_render
    /\ state.last_render_positions /= None

\* C17: scroll_down(lines) returns true whenever offset_address + lines *
\* per_row, not limited to the data, differs from the offset before the call.
C17_ScrollDownReportsTarget ==
    [][lastOp' = "scroll_down" =>
          (ret' <=> saturating_add(state.offset_address,
                                   saturating_mul(Unwrap(arg'), last_per_row(state)))
                        /= state.offset_address)]_vars

\* a selection within the data of the stored layout
SelectedInData(s) ==
    /\ s.selected_address /= None
    /\ s.last_render_positions /= None
    /\ Unwrap(s.selected_address) <= Unwrap(s.last_render_positions).biggest_address

\* C20: for a selection Some(a) within the data, select_first_in_row selects
\* (a / per_row) * per_row and select_last_in_row that plus per_row - 1, limited
\* to the last byte of the data; both stay in the row of a; a second call of
\* either changes nothing and returns false.
C20_HomeEnd ==
    [][LET a == Unwrap(state.selected_address)
           per_row == Unwrap(state.last_render_positions).per_row
           biggest == Unwrap(state.last_render_positions).biggest_address
           row_start == (a \div per_row) * per_row
       IN  /\ (lastOp' = "select_first_in_row" /\ SelectedInData(state))
              => /\ state'.selected_address = Some(row_start)
                 /\ ret' = (a /= row_start)
           /\ (lastOp' = "select_last_in_row" /\ SelectedInData(state))
              => /\ state'.selected_address = Some(Min(row_start + per_row - 1, biggest))
                 /\ Unwrap(state'.selected_address) \div per_row = a \div per_row
                 /\ ret' = (a /= Min(row_start + per_row - 1, biggest))
           /\ (lastOp' \in {"select_first_in_row", "select_last_in_row"} /\ lastOp = lastOp')
              => (state' = state /\ ret' = FALSE)]_vars

\* select_last_in_row called on the last byte of a partial last row
C20_Witness ==
    /\ lastOp = "select_last_in_row"
    /\ ret = FALSE
    /\ SelectedInData(state)
    /\ state.selected_address = Some(Unwrap(state.last_render_positions).biggest_address)
    /\ Unwrap(state.selected_address) % Unwrap(state.last_render_positions).per_row
           < Unwrap(state.last_render_positions).per_row - 1
    /\ Unwrap(state.selected_address) >= Unwrap(state.last_render_positions).per_row

\* C21: after every render that computes a layout offset_address is a multiple
\* of the per_row of that layout.
C21_OffsetOnRowStart ==
    RenderedLayout => state.offset_address % PerRow = 0

\* a step of select (select_address) or of a key, Home or End mutator
SelectionStep ==
    lastOp' \in {"select", "select_address", "key_up", "key_down", "key_left",
                 "key_right", "select_first_in_row", "select_last_in_row"}

\* C22: select and the key, Home and End mutators leave offset_address and the
\* stored layout unchanged, for every argument, select(None) included.
C22_SelectionFrame ==
    [][SelectionStep =>
           /\ state'.offset_address = state.offset_address
           /\ state'.last_render_positions = state.last_render_positions]_vars

\* C23: every select, key, Home and End call sets the flag; a render that
\* computes a layout clears it and a render that computes none leaves it as it
\* was; so the first render with a layout after a selection made without one
\* draws the row of the selection.
C23_PendingFlag ==
    /\ [][SelectionStep => state'.ensure_selected_in_view_on_next_render]_vars
    /\ [][lastOp' = "render" =>
              (state'.ensure_selected_in_view_on_next_render
                  <=> (/\ state.ensure_selected_in_view_on_next_render
                       /\ state'.last_render_positions = None))]_vars
    /\ [](( /\ RenderedLayout
            /\ before.last_render_positions = None
            /\ before.ensure_selected_in_view_on_next_render
            /\ state.selected_address /= None
            /\ data_length > 0)
          => \E cell \in drawn.cells : cell.address = Unwrap(state.selected_address))

\* a render of an undersized region dropped the layout and left the scroll to
\* the selection pending
C23_Witness ==
    /\ Rendered
    /\ before.last_render_positions /= None
    /\ state.last_render_positions = None
    /\ before.ensure_selected_in_view_on_next_render
    /\ state.ensure_selected_in_view_on_next_render
    /\ state.selected_address /= None
    /\ data_length > 0

\* the address of the first byte of the topmost row a render drew
TopDrawn == CHOOSE a \in {label.address : label \in drawn.labels} :
                \A label \in drawn.labels : a <= label.address

\* C26: a render with a layout entered with the flag clear draws from the row
\* top_row = min(offset_address, data_length - 1) / per_row whatever the
\* selection is, keeps min(offset_address, data_length - 1) as the offset, and
\* draws at least one row.
C26_ScrollKept ==
    (RenderedLayout /\ ~before.ensure_selected_in_view_on_next_render)
    => LET limited == Min(before.offset_address, data_length - 1)
       IN  /\ state.offset_address = limited
           /\ drawn.labels /= {}
           /\ TopDrawn = (limited \div PerRow) * PerRow
           /\ \E cell \in drawn.cells : cell.address \div PerRow = limited \div PerRow

\* the view was scrolled below the selection and the render left the selected
\* byte above the rows it drew
C26_Witness ==
    /\ RenderedLayout
    /\ ~before.ensure_selected_in_view_on_next_render
    /\ before.offset_address > 0
    /\ state.selected_address /= None
    /\ Unwrap(state.selected_address) \div PerRow < state.offset_address \div PerRow
    /\ drawn.labels /= {}
    /\ \A cell \in drawn.cells : cell.address /= Unwrap(state.selected_address)

\* C27: while a layout computed for data of length n is stored, select_address,
\* the key, Home and End mutators, scroll_up and scroll_down keep
\* offset_address <= n - 1 and a selection <= n - 1.
C27_WithinLastRender ==
    state.last_render_positions /= None
    => LET biggest_address == Unwrap(state.last_render_positions).biggest_address
       IN  /\ state.offset_address <= biggest_address
           /\ state.selected_address /= None
              => Unwrap(state.selected_address) <= biggest_address

\* scroll_down(usize::MAX) after a render with a layout stopped at the last
\* address of the data, below a selection that key_down could not move past it
C27_Witness ==
    /\ lastOp = "scroll_down"
    /\ arg = Some(UsizeMax)
    /\ state.last_render_positions /= None
    /\ Unwrap(state.last_render_positions).biggest_address > 0
    /\ state.offset_address = Unwrap(state.last_render_positions).biggest_address
    /\ state.selected_address = Some(state.offset_address)

----------------------------------------------------------------------------
(* Claims about a key and the render after it (SpecKeys)                    *)

\* the key was called and the render after it computed a layout
KeyRendered == phase = "done" /\ state.last_render_positions /= None

\* the biggest address the key could select: that of the stored layout
KeyLimit ==
    IF before.last_render_positions = None THEN UsizeMax
    ELSE Unwrap(before.last_render_positions).biggest_address

\* C18: with no selection, key_up and key_left leave the selection on
\* data_length - 1 after the next render that computes a layout, key_down and
\* key_right on 0.
C18_SeedLastOrFirst ==
    (KeyRendered /\ before.selected_address = None)
    => state.selected_address =
           Some(IF arg \in {"key_up", "key_left"} THEN probe.data_length - 1 ELSE 0)

\* What the seeding does: key_down and key_right select 0; key_up and key_left
\* select the biggest address of the stored layout (usize::MAX without one),
\* which the next render that computes a layout limits to data_length - 1: the
\* last byte of the data unless the data has grown since the layout was stored.
SeedLimitedToLayout ==
    (phase = "done" /\ before.selected_address = None)
    => /\ twin.selected_address =
              Some(IF arg \in {"key_up", "key_left"} THEN KeyLimit ELSE 0)
       /\ state.last_render_positions /= None
          => state.selected_address =
                 Some(IF arg \in {"key_up", "key_left"}
                      THEN Min(KeyLimit, probe.data_length - 1) ELSE 0)
       /\ (state.last_render_positions /= None /\ probe.data_length - 1 <= KeyLimit
             /\ arg \in {"key_up", "key_left"})
          => state.selected_address = Some(probe.data_length - 1)

\* region and data of the render after the key are those of the render
\* before it, if there was one
KeyUnchanged == area = NoArea \/ (probe.area = area /\ probe.data_length = data_length)

\* the per_row of the layout of the render before the key, 8 without one
KeyPerRow ==
    IF before.last_render_positions = None THEN 8
    ELSE Unwrap(before.last_render_positions).per_row

\* C19 as stated: with selection Some(a) and region and data unchanged, after
\* the next render key_up has made the selection max(a - p, 0) and key_down
\* min(a + p, data_length - 1), p the per_row of the last layout or 8.
C19_KeyUpDownStep ==
    (/\ phase = "done"
     /\ before.selected_address /= None
     /\ arg \in {"key_up", "key_down"}
     /\ KeyUnchanged
     /\ probe.data_length >= 1)
    => LET a == Unwrap(before.selected_address)
           last == probe.data_length - 1
       IN  state.selected_address =
               Some(IF arg = "key_up" THEN Max(a - KeyPerRow, 0)
                    ELSE IF a >= last - KeyPerRow THEN last ELSE a + KeyPerRow)

\* C19 amended: the key leaves a - p (at least 0) or a + p (at most
\* usize::MAX), p the per_row of the stored layout or 8 without one, limited
\* to the biggest address of the stored layout if there is one; a next render
\* with a layout limits it to data_length - 1, one without leaves it.  With a
\* stored layout and region and data unchanged that is max(a - p, 0) and
\* min(a + p, data_length - 1), at once and after the render.
C19_KeyUpDownStepOfLayout ==
    (/\ phase = "done"
     /\ before.selected_address /= None
     /\ arg \in {"key_up", "key_down"})
    => LET a == Unwrap(before.selected_address)
           last == probe.data_length - 1
           stepped == IF arg = "key_up" THEN Max(a - KeyPerRow, 0)
                      ELSE IF a >= UsizeMax - KeyPerRow THEN UsizeMax ELSE a + KeyPerRow
       IN  /\ twin.selected_address = Some(Min(stepped, KeyLimit))
           /\ state.selected_address =
                  IF state.last_render_positions = None THEN twin.selected_address
                  ELSE Some(Min(Min(stepped, KeyLimit), last))
           /\ (before.last_render_positions /= None /\ KeyUnchanged)
              => /\ state.selected_address = twin.selected_address
                 /\ state.selected_address =
                        Some(IF arg = "key_up" THEN Max(a - KeyPerRow, 0)
                             ELSE IF a >= last - KeyPerRow THEN last ELSE a + KeyPerRow)

\* key_down from the last line but one, short of the last byte, with the layout
\* of the render before it: the last byte is selected
C19_Witness ==
    /\ KeyRendered
    /\ before.last_render_positions /= None
    /\ KeyUnchanged
    /\ arg = "key_down"
    /\ before.selected_address /= None
    /\ Unwrap(before.selected_address) < probe.data_length - 1
    /\ Unwrap(before.selected_address) + KeyPerRow > probe.data_length - 1
    /\ Unwrap(before.selected_address) >= KeyPerRow
    /\ state.selected_address = Some(probe.data_length - 1)

----------------------------------------------------------------------------
(* Claims about two schedules (SpecBurst, SpecOrder)                        *)

\* C7 as stated: the calls of a burst followed by one render leave the same
\* offset_address, selected_address and flag as the same calls with a render
\* after each.
C7_BurstEquivalence ==
    phase = "done" =>
        /\ state.offset_address = twin.offset_address
        /\ state.selected_address = twin.selected_address
        /\ state.ensure_selected_in_view_on_next_render
               = twin.ensure_selected_in_view_on_next_render

\* C7 amended: for the mutators of State, starting after a render of the same
\* region and data, both schedules leave the same selected_address and flag
\* (offset_address may differ).
C7_BurstSameSelection ==
    phase = "done" =>
        /\ state.selected_address = twin.selected_address
        /\ state.ensure_selected_in_view_on_next_render
               = twin.ensure_selected_in_view_on_next_render
        /\ state.last_render_positions = twin.last_render_positions

\* a burst of MaxBurst calls after which the two schedules show different lines
\* and select the same byte
C7_Witness ==
    /\ phase = "done"
    /\ arg = MaxBurst
    /\ state.offset_address /= twin.offset_address
    /\ state.selected_address /= None
    /\ state.selected_address = twin.selected_address
    /\ state.last_render_positions /= None

\* C8 as stated: two mutators invoked between two renders yield the same state
\* after the next render in either order.
C8_OrderIndependent ==
    phase = "done" => state = twin

\* C8 amended: for the mutators of State, a scroll (scroll_up, scroll_down) and
\* a selection mutator yield the same state after the next render in either
\* order.
C8_ScrollSelectCommute ==
    (phase = "done" /\ IsScroll(arg[1]) /= IsScroll(arg[2]))
    => state = twin

\* scroll_down(1) and key_down, both with an effect
C8_Witness ==
    /\ phase = "done"
    /\ arg[1] = [op |-> "scroll_down", arg |-> Some(1)]
    /\ arg[2] = [op |-> "key_down", arg |-> None]
    /\ state = twin
    /\ state.last_render_positions /= None
    /\ state.offset_address > 0
    /\ state.selected_address /= None
    /\ Unwrap(state.selected_address) > 0

====
